---- MODULE Spec2Model ----
(***************************************************************************)
(* Model of src/bilibili.py: the M4S header repair (decode_bilibili_m4s),  *)
(* the folder detection (detect_folder_structure), the track selection,    *)
(* sanitize_filename, the per-folder merge orchestration                   *)
(* (process_single_folder, process_mobile_m4s_files, process_pc_m4s_files, *)
(* _run_ffmpeg_command), the start command (start_processing_thread) and   *)
(* the batch loop (process_folders); SpecStart has the start button and    *)
(* the worker threads it launches.                                         *)
(*                                                                         *)
(* Text is modelled as sequences of one-character strings, files as        *)
(* sequences of byte values 0..255, the output directory and the temp      *)
(* directory as sets of file names.  What the program reads from the file  *)
(* system or gets back from the external tool is drawn with \E at the step *)
(* that reads it.                                                          *)
(***************************************************************************)
EXTENDS Integers, Sequences, FiniteSets, TLC

\* ------------------------------------------------------------------ bounds
MaxFolders == 2
MaxFrags == 2
MaxSize == 2
MaxShortLen == 40
MaxTail == 2
MaxItems == 2
MaxEntries == 3
MaxEntrySize == 3
MaxM4s == 2
MaxOver == 2
MaxWorkers == 2

\* ------------------------------------------------------- program constants
FIRST_CHUNK == 1024
COPY_BLOCK == 4096
STRIP_LEN == 9
PATCH_OFFSET == 3
PATCH_BYTE == 32
BRAND_OFFSET == 16
BRAND_END == 20
MAX_NAME_LEN == 150
MIN_FRAGMENTS == 2

Min(a, b) == IF a < b THEN a ELSE b

\* "iso5" = 0x69 0x73 0x6f 0x35
ISO5 == <<105, 115, 111, 53>>

\* ------------------------------------------------------------------- text
UNTITLED_VIDEO == <<"u","n","t","i","t","l","e","d","_","v","i","d","e","o">>
CONVERTED_VIDEO == <<"c","o","n","v","e","r","t","e","d","_","v","i","d","e","o">>
MP4_EXT == <<".","m","p","4">>

IllegalChars == {"\\", "/", "*", "?", ":", "\"", "<", ">", "|"}
SpaceChars == {" ", "\t", "\n", "\r"}

\* re.sub(r'[\\/*?:"<>|]', "_", filename)
ReplaceIllegal(s) == [k \in 1..Len(s) |-> IF s[k] \in IllegalChars THEN "_" ELSE s[k]]

\* re.sub(r'\s+', ' ', filename): every maximal run of whitespace becomes one space
\* (computed on the two halves of the text, the run across the cut joined)
RECURSIVE CollapseSpaces(_)
CollapseSpaces(s) ==
    IF s = <<>> THEN <<>>
    ELSE IF Len(s) = 1 THEN (IF s[1] \in SpaceChars THEN <<" ">> ELSE s)
    ELSE LET half == Len(s) \div 2
             left == CollapseSpaces(SubSeq(s, 1, half))
             right == CollapseSpaces(SubSeq(s, half + 1, Len(s)))
         IN  IF left[Len(left)] = " " /\ right[1] = " "
             THEN left \o Tail(right)
             ELSE left \o right

\* str.strip()
RECURSIVE LStrip(_)
LStrip(s) == IF s # <<>> /\ Head(s) \in SpaceChars THEN LStrip(Tail(s)) ELSE s

RECURSIVE RStrip(_)
RStrip(s) == IF s # <<>> /\ s[Len(s)] \in SpaceChars THEN RStrip(SubSeq(s, 1, Len(s) - 1)) ELSE s

Strip(s) == RStrip(LStrip(s))

\* Variant: the result is not truncated.
sanitize_filename_NoTruncate(filename) == Strip(CollapseSpaces(ReplaceIllegal(filename)))

sanitize_filename(filename) ==
    LET replaced == ReplaceIllegal(filename)
        stripped == Strip(CollapseSpaces(replaced))
    IN  SubSeq(stripped, 1, Min(MAX_NAME_LEN, Len(stripped)))

\* ------------------------------------------------------ metadata and title
\* A key path that does not resolve in the parsed JSON document.
\* The titles sanitize_filename is applied to: the example 'My:Video<1>' and
\* titles of every length up to MaxOver characters past the limit, made of
\* letters only, or with whitespace at the start, at both ends, in a run of
\* three, at the position of the limit, or with illegal characters.
MY_VIDEO == <<"M", "y", ":", "V", "i", "d", "e", "o", "<", "1", ">">>
TitleShapes == {"plain", "lead", "ends", "run", "edge", "illegal"}

ShapedTitle(n, shape) ==
    [k \in 1..n |->
        IF shape = "lead" /\ k = 1 THEN " "
        ELSE IF shape = "ends" /\ k \in {1, n} THEN " "
        ELSE IF shape = "run" /\ k \in {2, 4} THEN " "
        ELSE IF shape = "run" /\ k = 3 THEN "\t"
        ELSE IF shape = "edge" /\ k = MAX_NAME_LEN THEN " "
        ELSE IF shape = "illegal" /\ k = 1 THEN ":"
        ELSE IF shape = "illegal" /\ k = n THEN "|"
        ELSE "a"]

SanitizeInputs ==
    {MY_VIDEO} \cup {ShapedTitle(n, shape) : n \in 0..(MAX_NAME_LEN + MaxOver), shape \in TitleShapes}

Absent == <<"<absent>">>

TitleValues == {<<>>, <<" ">>, <<"a", ":">>}
JsonValues == {Absent} \cup TitleValues
BaseNames == {<<>>, <<"d">>}

VideoInfos == [title : JsonValues, videoData_title : JsonValues,
               page_data_part : JsonValues, videoName : JsonValues]

\* Python truthiness of a looked-up string: the key is present and the value non-empty
Truthy(v) == v # Absent /\ v # <<>>

ExtractTitle(structure_type, video_info) ==
    IF structure_type = "pc"
    THEN IF Truthy(video_info.title) THEN video_info.title
         ELSE IF video_info.videoData_title # Absent THEN video_info.videoData_title
         ELSE IF video_info.page_data_part # Absent THEN video_info.page_data_part
         ELSE IF Truthy(video_info.videoName) THEN video_info.videoName
         ELSE UNTITLED_VIDEO
    ELSE IF Truthy(video_info.title) THEN video_info.title
         ELSE IF video_info.page_data_part # Absent THEN video_info.page_data_part
         ELSE UNTITLED_VIDEO

\* Variant: an empty sanitized title goes straight to the fixed literal.
FallbackTitle_SkipBasename(video_title, basename) ==
    LET first == sanitize_filename(video_title)
    IN  IF first # <<>> THEN first ELSE CONVERTED_VIDEO

FallbackTitle(video_title, basename) ==
    LET first == sanitize_filename(video_title)
        second == sanitize_filename(basename)
    IN  IF first # <<>> THEN first
        ELSE IF second # <<>> THEN second
        ELSE CONVERTED_VIDEO

\* ------------------------------------------------------------ output path
Digit(d) == <<"0","1","2","3","4","5","6","7","8","9">>[d + 1]

RECURSIVE Decimal(_)
Decimal(n) == IF n < 10 THEN <<Digit(n)>> ELSE Decimal(n \div 10) \o <<Digit(n % 10)>>

OutputName(base, count) ==
    IF count = 0 THEN base \o MP4_EXT
    ELSE base \o <<"_">> \o Decimal(count) \o MP4_EXT

RECURSIVE FirstFreeName(_, _, _)
FirstFreeName(base, count, dir) ==
    IF OutputName(base, count) \in dir
    THEN FirstFreeName(base, count + 1, dir)
    ELSE OutputName(base, count)

\* Variant: no collision probe, the plain name is always used.
ComputeOutputPath_Overwrite(sanitized, dir) == OutputName(sanitized, 0)

ComputeOutputPath(sanitized, dir) == FirstFreeName(sanitized, 0, dir)

\* ------------------------------------------------------- track selection
\* A directory listing of .m4s files: the size of each, in listing order;
\* Unreadable stands for os.path.getsize raising OSError.
Unreadable == -1
FragSizes == {Unreadable} \cup (1..MaxSize)

RECURSIVE SeqsUpTo(_, _)
SeqsUpTo(S, n) ==
    IF n = 0 THEN {<<>>}
    ELSE LET shorter == SeqsUpTo(S, n - 1)
         IN  shorter \cup {Append(q, x) : q \in {r \in shorter : Len(r) = n - 1}, x \in S}

FragListings == SeqsUpTo(FragSizes, MaxFrags)

\* m4s_files: the listing indices whose size could be read, in listing order
RECURSIVE SizedFiles(_, _)
SizedFiles(frags, k) ==
    IF k > Len(frags) THEN <<>>
    ELSE IF frags[k] # Unreadable
         THEN <<k>> \o SizedFiles(frags, k + 1)
         ELSE SizedFiles(frags, k + 1)

\* list.sort(key=size, reverse=True) is stable: equal sizes keep listing order
RECURSIVE InsertDesc(_, _, _)
InsertDesc(frags, x, sorted) ==
    IF sorted = <<>> THEN <<x>>
    ELSE IF frags[Head(sorted)] >= frags[x]
         THEN <<Head(sorted)>> \o InsertDesc(frags, x, Tail(sorted))
         ELSE <<x>> \o sorted

RECURSIVE SortDesc(_, _)
SortDesc(frags, files) ==
    IF files = <<>> THEN <<>>
    ELSE InsertDesc(frags, files[Len(files)], SortDesc(frags, SubSeq(files, 1, Len(files) - 1)))

\* Variant: the files are left in listing order.
SortedFiles_Unsorted(frags) == SizedFiles(frags, 1)

\* m4s_files after the sort
SortedFiles(frags) == SortDesc(frags, SizedFiles(frags, 1))

\* The names of a media folder: with the extension in lower case, in upper
\* case, without the dot, and with another extension.
M4S_EXT == <<".", "m", "4", "s">>
EntryNames == {<<"v", ".", "m", "4", "s">>, <<"A", ".", "M", "4", "S">>,
               <<"m", "4", "s">>, <<"v", ".", "m", "p", "4">>}

\* str.lower() on the letters the names are made of
LowerChar(c) ==
    IF c = "A" THEN "a" ELSE IF c = "M" THEN "m" ELSE IF c = "S" THEN "s" ELSE c

Lower(t) == [k \in DOMAIN t |-> LowerChar(t[k])]

EndsWith(t, suffix) ==
    Len(t) >= Len(suffix) /\ SubSeq(t, Len(t) - Len(suffix) + 1, Len(t)) = suffix

\* item.lower().endswith(".m4s")
IsFragmentName(item) == EndsWith(Lower(item), M4S_EXT)

\* What os.listdir(media_folder_path) returns, with what os.path.getsize gives
\* for each name (Unreadable: OSError).
DirEntries == [name : EntryNames, size : {Unreadable} \cup (1..MaxEntrySize)]
DirListings == SeqsUpTo(DirEntries, MaxEntries)

\* The positions in the listing of the names that end in ".m4s"
RECURSIVE FragmentEntries(_, _)
FragmentEntries(listing, k) ==
    IF k > Len(listing) THEN <<>>
    ELSE IF IsFragmentName(listing[k].name)
         THEN <<k>> \o FragmentEntries(listing, k + 1)
         ELSE FragmentEntries(listing, k + 1)

\* The head of process_mobile_m4s_files and of process_pc_m4s_files: collect
\* the fragments with their sizes, fail on fewer than two, sort by size and
\* take the first as video and the second as audio (positions in the listing).
SelectTracks(listing) ==
    LET names == FragmentEntries(listing, 1)
        sizes == [j \in DOMAIN names |-> listing[names[j]].size]
        sorted == SortedFiles(sizes)
    IN  IF Len(sorted) < MIN_FRAGMENTS
        THEN [ok |-> FALSE, video |-> 0, audio |-> 0]
        ELSE [ok |-> TRUE, video |-> names[sorted[1]], audio |-> names[sorted[2]]]

\* ----------------------------------------------------------- header repair
\* del data[0:9]
StripHeader(data) == SubSeq(data, STRIP_LEN + 1, Len(data))

\* Variant: the byte at index 3 is assigned whatever the length.
PatchGuard_Always(data) == TRUE

\* if len(data) > 3:
PatchGuard(data) == Len(data) > PATCH_OFFSET

\* data[3] = 0x20
PatchByte(data) ==
    IF PatchGuard(data) THEN [data EXCEPT ![PATCH_OFFSET + 1] = PATCH_BYTE] ELSE data

\* if len(data) >= 20:
BrandGuard(data) == Len(data) >= BRAND_END

\* data[3] = ... and data[16] ... data[19] index the bytearray: an index past its
\* end raises IndexError, which the except clause of the function catches.
IndexError(data) ==
    \/ PatchGuard(data) /\ Len(data) <= PATCH_OFFSET
    \/ BrandGuard(data) /\ Len(data) < BRAND_END

\* Variant: the four bytes are removed when they are "iso5" and kept otherwise.
StripBrand_Inverted(data) ==
    IF BrandGuard(data)
    THEN IF SubSeq(data, BRAND_OFFSET + 1, BRAND_END) = ISO5
         THEN SubSeq(data, 1, BRAND_OFFSET) \o SubSeq(data, BRAND_END + 1, Len(data))
         ELSE data
    ELSE data

\* del data[16:20] unless data[16:20] == b"iso5"
StripBrand(data) ==
    IF BrandGuard(data)
    THEN IF SubSeq(data, BRAND_OFFSET + 1, BRAND_END) # ISO5
         THEN SubSeq(data, 1, BRAND_OFFSET) \o SubSeq(data, BRAND_END + 1, Len(data))
         ELSE data
    ELSE data

\* f.read(n) at position pos of a regular file
ReadBytes(file, pos, n) == SubSeq(file, pos + 1, Min(pos + n, Len(file)))

\* ------------------------------------------------------------------ state
VARIABLES
    input_folders,          \* self.input_folders: the submitted folders, in order
    output_folder_set,      \* the output folder is chosen and is (or was made) a directory
    outDir,                 \* names of the files present in the output directory
    tempDir,                \* temp files present on disk
    pc,                     \* position of the worker running process_folders
    i,                      \* index of the folder being processed (0-based, as enumerate)
    success_count,
    failed_count,           \* total_folders - success_count, as reported at the end
    structure_type,         \* detect_folder_structure(...)[0]
    frags,                  \* the .m4s files of the media folder, while a second listing may follow
    folder_basename,        \* os.path.basename(input_folder_path)
    video_info,             \* the parsed metadata descriptor
    video_title,
    sanitized_title,
    tracks,                 \* <<video, audio>>: the two selected fragments
    temp_video_m4s,
    temp_audio_m4s,
    success_decoding,
    final_output_filepath,
    pending,                \* what the try block of process_pc_m4s_files left for its finally
    ret,                    \* return value of process_single_folder
    invocations,            \* history: the external-tool invocations for the current folder
    strategy_b_runs,        \* history: calls of process_pc_m4s_files for the current folder
    remove_failed,          \* history: temp files whose os.remove raised, current folder
    repaired,               \* history: temp files decode_bilibili_m4s wrote and returned True for
    outDirAtStart,          \* history: outDir when process_single_folder was entered
    processed,              \* history: folders handed to process_single_folder, in order
    results,                \* history: what process_single_folder returned, in order
    fin,                    \* decode_bilibili_m4s: bytes of the input file
    fpos,                   \* decode_bilibili_m4s: read position in the input file
    fout,                   \* decode_bilibili_m4s: bytes written to the output file
    first_chunk_processed,
    dpc,                    \* decode_bilibili_m4s: position
    dret,                   \* decode_bilibili_m4s: return value
    io_error,               \* history: open, read or write raised inside decode_bilibili_m4s
    arg,                    \* the argument of the function a single-function specification applies
    out,                    \* what that function returned
    FFMPEG_EXECUTABLE,      \* whether get_ffmpeg_executable_path() found the tool at startup
    start_refused,          \* history: start_processing_thread returned without starting a worker
    start_button,           \* state of self.start_button: "normal" or "disabled"
    workers                 \* the threads start_processing_thread created, each with its position

batchVars == <<input_folders, output_folder_set, pc, i, success_count, failed_count,
               processed, results>>
diskVars == <<outDir, tempDir>>
folderVars == <<structure_type, frags, folder_basename, video_info, video_title,
                sanitized_title, tracks, ret, outDirAtStart>>
strategyVars == <<temp_video_m4s, temp_audio_m4s, success_decoding, final_output_filepath,
                  pending, invocations, strategy_b_runs, remove_failed, repaired>>
decodeVars == <<fin, fpos, fout, first_chunk_processed, dpc, dret, io_error>>
functionVars == <<arg, out>>
appVars == <<FFMPEG_EXECUTABLE, start_refused, start_button, workers>>
batchVars_noPc == <<input_folders, output_folder_set, i, success_count, failed_count,
                    processed, results>>
vars == <<batchVars, diskVars, folderVars, strategyVars, decodeVars, functionVars, appVars>>

None == <<"None">>

\* What get_ffmpeg_executable_path() returns when it finds the tool
FFMPEG_PATH == <<"ffmpeg">>

\* __init__: the start button is disabled when the tool was not found
InitialStartButton(executable) == IF executable = None THEN "disabled" ELSE "normal"

\* process_folders: a failing guard sets the start button to NORMAL and returns;
\* when the guards pass the controls are disabled for the time of the batch.
ButtonAfterGuards(ready) == IF ready THEN "disabled" ELSE "normal"
NoPath == <<>>
NoInfo == [title |-> Absent, videoData_title |-> Absent,
           page_data_part |-> Absent, videoName |-> Absent]

\* ---------------------------------------------------- decode_bilibili_m4s
\* Variant: the brand is looked for before the nine bytes are removed.
RepairFirstChunk_BrandFirst(buffer) == PatchByte(StripHeader(StripBrand(buffer)))

\* The transformation of the first chunk when it holds at least 9 bytes.
RepairFirstChunk(buffer) == StripBrand(PatchByte(StripHeader(buffer)))

\* The transformation of the block read after a first chunk shorter than 9 bytes.
RepairAfterShort(buffer) == StripBrand(PatchByte(buffer))

Filler(k) == (7 * k + 3) % 256

\* The four bytes at offsets 16..19 after the strip: "iso5", or "iso5" with one byte off.
BrandChoices == {[k \in 1..4 |-> IF k = j THEN 0 ELSE ISO5[k]] : j \in 0..4}

InputFile(len, brand) ==
    [k \in 1..len |->
        IF k > STRIP_LEN + BRAND_OFFSET /\ k <= STRIP_LEN + BRAND_END
        THEN brand[k - STRIP_LEN - BRAND_OFFSET]
        ELSE Filler(k)]

\* Variant: the first nine bytes are deleted whatever the length of the chunk.
HasFullHeader_Always(buffer) == TRUE

\* if len(data) >= 9:
HasFullHeader(buffer) == Len(buffer) >= STRIP_LEN

DecodeLengths ==
    (0..MaxShortLen)
    \cup {FIRST_CHUNK + k : k \in (0 - 1)..MaxTail}
    \cup {FIRST_CHUNK + COPY_BLOCK + k : k \in 0..MaxTail}

DecodeIdle ==
    /\ fin = <<>> /\ fpos = 0 /\ fout = <<>>
    /\ first_chunk_processed = FALSE /\ dpc = "off" /\ dret = FALSE /\ io_error = FALSE

decode_first_chunk ==
    /\ dpc = "first"
    /\ LET buffer == ReadBytes(fin, fpos, FIRST_CHUNK)
           after == fpos + Len(buffer)
           second == ReadBytes(fin, after, COPY_BLOCK)
       IN  IF buffer = <<>>
           THEN /\ dpc' = "done" /\ dret' = TRUE
                /\ UNCHANGED <<fpos, fout, first_chunk_processed>>
           ELSE IF HasFullHeader(buffer)
           THEN IF IndexError(StripHeader(buffer))
                THEN /\ fpos' = after
                     /\ dpc' = "done" /\ dret' = FALSE
                     /\ UNCHANGED <<fout, first_chunk_processed>>
                ELSE /\ fout' = fout \o RepairFirstChunk(buffer)
                     /\ fpos' = after
                     /\ first_chunk_processed' = TRUE
                     /\ dpc' = "copy"
                     /\ UNCHANGED dret
           ELSE IF second = <<>>
           THEN /\ fout' = fout \o buffer
                /\ fpos' = after
                /\ first_chunk_processed' = TRUE
                /\ dpc' = "done" /\ dret' = TRUE
           ELSE IF IndexError(second)
           THEN /\ fout' = fout \o buffer
                /\ fpos' = after + Len(second)
                /\ first_chunk_processed' = TRUE
                /\ dpc' = "done" /\ dret' = FALSE
           ELSE /\ fout' = (fout \o buffer) \o RepairAfterShort(second)
                /\ fpos' = after + Len(second)
                /\ first_chunk_processed' = TRUE
                /\ dpc' = "copy"
                /\ UNCHANGED dret
    /\ UNCHANGED <<fin, io_error, batchVars, diskVars, folderVars, strategyVars,
                   functionVars, appVars>>

decode_copy_block ==
    /\ dpc = "copy"
    /\ LET buffer == ReadBytes(fin, fpos, COPY_BLOCK)
       IN  IF buffer = <<>>
           THEN /\ dpc' = "done" /\ dret' = TRUE
                /\ UNCHANGED <<fpos, fout>>
           ELSE /\ fout' = fout \o buffer
                /\ fpos' = fpos + Len(buffer)
                /\ UNCHANGED <<dpc, dret>>
    /\ UNCHANGED <<fin, first_chunk_processed, io_error, batchVars, diskVars, folderVars,
                   strategyVars, functionVars, appVars>>

\* open, read or write raises: the except clause returns False
decode_io_error ==
    /\ dpc \in {"first", "copy"}
    /\ dpc' = "done"
    /\ dret' = FALSE
    /\ io_error' = TRUE
    /\ UNCHANGED <<fin, fpos, fout, first_chunk_processed,
                   batchVars, diskVars, folderVars, strategyVars, functionVars, appVars>>

\* ------------------------------------------------- folder structure, tool
\* A metadata descriptor file: missing, a JSON mapping, or a file json.load rejects.
DescriptorStates == {"absent", "mapping", "unparsable"}

\* An entry of the c_ subfolder, in listing order: a plain file, or a directory
\* with whether os.listdir succeeds on it and how many of the names it holds
\* end in ".m4s" (case-insensitive).
PlainFile == [dir |-> FALSE, listable |-> FALSE, m4s |-> 0]
Items == {PlainFile} \cup [dir : {TRUE}, listable : BOOLEAN, m4s : 0..MaxM4s]

\* A directory that holds the two fragments
MediaDir == [dir |-> TRUE, listable |-> TRUE, m4s |-> MIN_FRAGMENTS]

\* A subdirectory whose name starts with "c_"
CFolders == [listable : BOOLEAN, entry : DescriptorStates, items : SeqsUpTo(Items, MaxItems)]

\* A second c_ subfolder, listed after the first: empty, or a complete mobile layout
OtherCFolders == {[listable |-> TRUE, entry |-> "absent", items |-> <<>>],
                  [listable |-> TRUE, entry |-> "mapping", items |-> <<MediaDir>>]}

\* An input folder: whether os.listdir succeeds on it, its videoInfo.json, and
\* its c_ subdirectories in listing order.
FolderTrees ==
    [listable : BOOLEAN, videoInfo : DescriptorStates,
     c_folders : {<<>>} \cup {<<c>> : c \in CFolders}
                        \cup {<<c, o>> : c \in CFolders, o \in OtherCFolders}]

\* The folders the batch is run on: every outcome of the detection, with
\* descriptors that exist being mappings (a failing load is a step of its own).
FolderDescs ==
    [listable : BOOLEAN, videoInfo : {"absent", "mapping"},
     c_folders : {<<>>} \cup {<<c>> : c \in [listable : {TRUE}, entry : {"absent", "mapping"},
                                              items : {<<>>, <<MediaDir>>}]}]

UnknownLayout == [kind |-> "unknown", c_folder |-> 0, media_dir |-> 0, json |-> "None"]

\* Variant: videoInfo.json decides only when there is no c_ subfolder.
HasVideoInfo_NoCFolder(d) == d.videoInfo # "absent" /\ d.c_folders = <<>>

\* 'videoInfo.json' in items
HasVideoInfo(d) == d.videoInfo # "absent"

\* Variant: the existence of entry.json is not checked.
EntryExists_Unchecked(c) == TRUE

\* os.path.exists(entry_json_path)
EntryExists(c) == c.entry # "absent"

\* Variant: one fragment is enough.
IsMediaDir_OneFragment(item) == item.dir /\ item.listable /\ item.m4s >= 1

\* os.path.isdir(item_path), os.listdir(item_path) does not raise, and at least
\* two of the names end in ".m4s"; a directory whose listing raises is skipped.
IsMediaDir(item) == item.dir /\ item.listable /\ item.m4s >= MIN_FRAGMENTS

\* for item in c_items: the index of the first media directory, 0 when the loop ends
RECURSIVE FirstMediaDir(_, _)
FirstMediaDir(items, k) ==
    IF k > Len(items) THEN 0
    ELSE IF IsMediaDir(items[k]) THEN k
    ELSE FirstMediaDir(items, k + 1)

\* The result: the kind, the media folder (the folder itself for "pc", entry
\* media_dir of c_ subfolder c_folder for "mobile") and the descriptor's name.
detect_folder_structure(d) ==
    IF ~d.listable THEN UnknownLayout
    ELSE IF HasVideoInfo(d)
    THEN [kind |-> "pc", c_folder |-> 0, media_dir |-> 0, json |-> "videoInfo.json"]
    ELSE IF d.c_folders = <<>> THEN UnknownLayout
    ELSE LET c == d.c_folders[1]
         IN  IF ~c.listable THEN UnknownLayout
             ELSE IF ~EntryExists(c) THEN UnknownLayout
             ELSE IF FirstMediaDir(c.items, 1) = 0 THEN UnknownLayout
             ELSE [kind |-> "mobile", c_folder |-> 1,
                   media_dir |-> FirstMediaDir(c.items, 1), json |-> "entry.json"]

\* The .m4s files of the media folder: a mobile media folder was detected by
\* holding at least two of them.
MediaListings(structure) ==
    IF structure = "unknown" THEN {<<>>}
    ELSE IF structure = "mobile" THEN {f \in FragListings : Len(f) >= 2}
    ELSE FragListings

\* How a run of the external tool can end: exit status 0 with the output
\* written; non-zero exit before the output was opened; non-zero exit after
\* the output file was created; the executable is not found.
ToolOutcomes == {"ok", "fail", "fail_partial", "not_found"}

\* _run_ffmpeg_command: True only when subprocess.run(check=True) returns
run_ffmpeg_command(outcome) == outcome = "ok"

\* The output directory after a run of the tool with target path target (-y)
ToolWrites(dir, target, outcome) ==
    IF outcome \in {"ok", "fail_partial"} THEN dir \cup {target} ELSE dir

Invocation(kind, files, target, outcome) ==
    [inputs |-> kind, files |-> files, target |-> target,
     existed |-> target \in outDir, ok |-> run_ffmpeg_command(outcome)]

\* tempfile.mkstemp: a name that does not exist yet
RECURSIVE FreshFrom(_, _)
FreshFrom(prefix, n) == IF <<prefix, n>> \in tempDir THEN FreshFrom(prefix, n + 1) ELSE <<prefix, n>>

mkstemp(prefix) == FreshFrom(prefix, 1)

StrategyIdle ==
    /\ temp_video_m4s = None /\ temp_audio_m4s = None
    /\ success_decoding = FALSE /\ final_output_filepath = NoPath
    /\ pending = "none" /\ invocations = <<>> /\ strategy_b_runs = 0
    /\ remove_failed = {} /\ repaired = {}

FunctionIdle == arg = None /\ out = None

FolderIdle ==
    /\ structure_type = "none" /\ frags = <<>> /\ folder_basename = <<>>
    /\ video_info = NoInfo /\ video_title = <<>> /\ sanitized_title = <<>>
    /\ tracks = <<>> /\ ret = FALSE /\ outDirAtStart = {}

\* ------------------------------------------------------------------- Init
\* The output directory before the batch: empty, or holding the files of two earlier runs.
InitialOutDirs == {{}, {OutputName(<<"a", "_">>, 0), OutputName(<<"a", "_">>, 1)}}

Init ==
    /\ input_folders \in {[k \in 1..n |-> k] : n \in 0..MaxFolders}
    /\ output_folder_set \in BOOLEAN
    /\ outDir \in InitialOutDirs
    /\ tempDir = {}
    /\ pc = "idle"
    /\ i = 0
    /\ success_count = 0
    /\ failed_count = 0
    /\ processed = <<>>
    /\ results = <<>>
    /\ FolderIdle
    /\ StrategyIdle
    /\ DecodeIdle
    /\ FunctionIdle
    /\ FFMPEG_EXECUTABLE \in {None, FFMPEG_PATH}
    /\ start_refused = FALSE
    /\ start_button = InitialStartButton(FFMPEG_EXECUTABLE)
    /\ workers = <<>>

\* process_single_folder returns value
Return(value) ==
    /\ ret' = value
    /\ pc' = "psf_return"

\* ------------------------------------------------------------ user actions
\* The user adds a folder to the list while no batch runs.
add_input_folder ==
    /\ pc = "idle"
    /\ Len(input_folders) < MaxFolders
    /\ input_folders' = Append(input_folders, Len(input_folders) + 1)
    /\ UNCHANGED <<output_folder_set, pc, i, success_count, failed_count, processed, results,
                   diskVars, folderVars, strategyVars, decodeVars, functionVars, appVars>>

\* Variant: the worker is started whether or not the tool was found.
ToolResolved_Unchecked(executable) == TRUE

\* if not FFMPEG_EXECUTABLE: ... return
ToolResolved(executable) == executable # None

\* The start command: refuses when the tool was not found at startup, starts
\* the worker thread that runs process_folders otherwise.  (The start button is
\* also disabled at startup in that case; the command is modelled as callable.)
start_processing_thread ==
    /\ pc = "idle"
    /\ IF ToolResolved(FFMPEG_EXECUTABLE)
       THEN pc' = "start" /\ UNCHANGED start_refused
       ELSE start_refused' = TRUE /\ UNCHANGED pc
    /\ UNCHANGED <<batchVars_noPc, diskVars, folderVars, strategyVars, decodeVars,
                   functionVars, FFMPEG_EXECUTABLE, start_button, workers>>

\* --------------------------------------------------------- process_folders
\* The guards of process_folders up to the first loop iteration.
process_folders_begin ==
    /\ pc = "start"
    /\ IF input_folders = <<>> \/ ~output_folder_set
       THEN pc' = "aborted"
       ELSE pc' = "psf_detect"
    /\ start_button' = ButtonAfterGuards(input_folders # <<>> /\ output_folder_set)
    /\ i' = 0
    /\ success_count' = 0
    /\ UNCHANGED <<input_folders, output_folder_set, failed_count, processed, results,
                   diskVars, folderVars, strategyVars, decodeVars, functionVars,
                   FFMPEG_EXECUTABLE, start_refused, workers>>

\* Variant: the loop bound is off by one, the last folder is skipped.
AfterFolder_SkipLast(index, total) == IF index + 2 < total THEN "psf_detect" ELSE "done"

\* for i, folder_path in enumerate(folders_to_process): where the loop goes after folder index
AfterFolder(index, total) == IF index + 1 < total THEN "psf_detect" ELSE "done"

\* One iteration ends: count the result, go to the next folder or report.
process_folders_next ==
    /\ pc = "psf_return"
    /\ LET count == IF ret THEN success_count + 1 ELSE success_count
       IN  /\ success_count' = count
           /\ results' = Append(results, ret)
           /\ pc' = AfterFolder(i, Len(input_folders))
           /\ IF AfterFolder(i, Len(input_folders)) = "psf_detect"
              THEN /\ i' = i + 1
                   /\ UNCHANGED failed_count
              ELSE /\ failed_count' = Len(input_folders) - count
                   /\ UNCHANGED i
    /\ structure_type' = "none" /\ frags' = <<>> /\ folder_basename' = <<>>
    /\ video_info' = NoInfo /\ video_title' = <<>> /\ sanitized_title' = <<>>
    /\ tracks' = <<>> /\ ret' = FALSE /\ outDirAtStart' = {}
    /\ temp_video_m4s' = None /\ temp_audio_m4s' = None
    /\ success_decoding' = FALSE /\ final_output_filepath' = NoPath
    /\ pending' = "none" /\ invocations' = <<>> /\ strategy_b_runs' = 0
    /\ remove_failed' = {} /\ repaired' = {}
    /\ start_button' = IF AfterFolder(i, Len(input_folders)) = "done" THEN "normal" ELSE start_button
    /\ UNCHANGED <<input_folders, output_folder_set, processed, diskVars, decodeVars, functionVars,
                   FFMPEG_EXECUTABLE, start_refused, workers>>

\* --------------------------------------------------- process_single_folder
process_single_folder_detect ==
    /\ pc = "psf_detect"
    /\ processed' = Append(processed, input_folders[i + 1])
    /\ outDirAtStart' = outDir
    /\ \E d \in FolderDescs :
         LET structure == detect_folder_structure(d).kind
         IN  /\ structure_type' = structure
             /\ IF structure = "unknown"
                THEN Return(FALSE)
                ELSE pc' = "psf_load_json" /\ UNCHANGED ret
    /\ UNCHANGED <<input_folders, output_folder_set, i, success_count, failed_count, results,
                   frags, folder_basename, video_info, video_title, sanitized_title, tracks,
                   diskVars, strategyVars, decodeVars, functionVars, appVars>>

\* The key paths a descriptor of this layout is probed for; the others stay unread.
InfosFor(structure) ==
    IF structure = "pc" THEN VideoInfos
    ELSE {v \in VideoInfos : v.videoData_title = Absent /\ v.videoName = Absent}

\* Variant: every recognised folder is handed to the mobile strategy.
Dispatch_AlwaysMobile(structure) == "mobile_select"

\* Which strategy process_single_folder hands the folder to.
Dispatch(structure) == IF structure = "mobile" THEN "mobile_select" ELSE "pc_select"

\* Load the descriptor, extract and sanitize the title, hand over to the strategy.
process_single_folder_load_json ==
    /\ pc = "psf_load_json"
    /\ \/ \* open or json.load raises
          /\ Return(FALSE)
          /\ UNCHANGED sanitized_title
       \/ \E info \in InfosFor(structure_type), basename \in BaseNames :
             /\ sanitized_title' =
                    FallbackTitle(ExtractTitle(structure_type, info), basename)
             /\ pc' = Dispatch(structure_type)
             /\ UNCHANGED ret
    /\ UNCHANGED <<batchVars_noPc, diskVars, structure_type, frags, folder_basename,
                   video_info, video_title, tracks, outDirAtStart, strategyVars, decodeVars, functionVars, appVars>>

\* ------------------------------------------------ process_mobile_m4s_files
\* List the media folder, select the two largest fragments, compute the output path.
mobile_select ==
    /\ pc = "mobile_select"
    /\ \/ \* os.listdir raises: caught by the outer except
          /\ Return(FALSE)
          /\ UNCHANGED <<frags, tracks, final_output_filepath>>
       \/ \E listing \in MediaListings(structure_type) :
            LET sorted == SortedFiles(listing)
            IN  /\ frags' = listing
                /\ IF Len(sorted) < 2
                   THEN /\ Return(FALSE)
                        /\ UNCHANGED <<tracks, final_output_filepath>>
                   ELSE /\ tracks' = <<sorted[1], sorted[2]>>
                        /\ final_output_filepath' = ComputeOutputPath(sanitized_title, outDir)
                        /\ pc' = "mobile_direct_merge"
                        /\ UNCHANGED ret
    /\ UNCHANGED <<batchVars_noPc, diskVars, structure_type, folder_basename, video_info,
                   video_title, sanitized_title,
                   outDirAtStart, temp_video_m4s, temp_audio_m4s, success_decoding, pending,
                   invocations, strategy_b_runs, remove_failed, repaired, decodeVars, functionVars, appVars>>

\* Variant: the fallback is entered whatever the direct merge returned.
AfterDirectMerge_AlwaysFallback(ok) == "pc_select"

\* Where process_mobile_m4s_files goes after the direct merge.
AfterDirectMerge(ok) == IF ok THEN "psf_return" ELSE "pc_select"

\* Strategy 1: the tool on the two raw fragments.
mobile_direct_merge ==
    /\ pc = "mobile_direct_merge"
    /\ \E outcome \in ToolOutcomes :
         /\ invocations' = Append(invocations,
                Invocation("raw", tracks, final_output_filepath, outcome))
         /\ outDir' = ToolWrites(outDir, final_output_filepath, outcome)
         /\ pc' = AfterDirectMerge(run_ffmpeg_command(outcome))
         /\ ret' = run_ffmpeg_command(outcome)
    /\ UNCHANGED <<batchVars_noPc, tempDir, structure_type, frags, folder_basename, video_info,
                   video_title, sanitized_title, tracks, outDirAtStart, temp_video_m4s,
                   temp_audio_m4s, success_decoding, final_output_filepath, pending,
                   strategy_b_runs, remove_failed, repaired, decodeVars, functionVars, appVars>>

\* ---------------------------------------------------- process_pc_m4s_files
\* The media folder as process_pc_m4s_files lists it: unchanged since the direct
\* merge listed it, when this is the fallback of process_mobile_m4s_files.
Relisting == IF invocations # <<>> THEN {frags} ELSE MediaListings(structure_type)

pc_select ==
    /\ pc = "pc_select"
    /\ strategy_b_runs' = strategy_b_runs + 1
    /\ \/ \* os.listdir raises: caught by the outer except
          /\ Return(FALSE)
          /\ frags' = <<>>
          /\ UNCHANGED tracks
       \/ \E listing \in Relisting :
            LET sorted == SortedFiles(listing)
            IN  /\ frags' = <<>>
                /\ IF Len(sorted) < 2
                   THEN /\ Return(FALSE)
                        /\ UNCHANGED tracks
                   ELSE /\ tracks' = <<sorted[1], sorted[2]>>
                        /\ pc' = "pc_mkstemp_video"
                        /\ UNCHANGED ret
    /\ UNCHANGED <<batchVars_noPc, diskVars, structure_type, folder_basename, video_info,
                   video_title, sanitized_title,
                   outDirAtStart, temp_video_m4s, temp_audio_m4s, success_decoding,
                   final_output_filepath, pending, invocations, remove_failed, repaired,
                   decodeVars, functionVars, appVars>>

pc_mkstemp_video ==
    /\ pc = "pc_mkstemp_video"
    /\ \/ /\ temp_video_m4s' = mkstemp("decoded_vid_")
          /\ tempDir' = tempDir \cup {mkstemp("decoded_vid_")}
          /\ pc' = "pc_mkstemp_audio"
          /\ UNCHANGED pending
       \/ \* mkstemp raises
          /\ pending' = "exception"
          /\ pc' = "pc_finally_video"
          /\ UNCHANGED <<temp_video_m4s, tempDir>>
    /\ UNCHANGED <<batchVars_noPc, outDir, folderVars, temp_audio_m4s, success_decoding,
                   final_output_filepath, invocations, strategy_b_runs, remove_failed,
                   repaired, decodeVars, functionVars, appVars>>

pc_mkstemp_audio ==
    /\ pc = "pc_mkstemp_audio"
    /\ \/ /\ temp_audio_m4s' = mkstemp("decoded_aud_")
          /\ tempDir' = tempDir \cup {mkstemp("decoded_aud_")}
          /\ pc' = "pc_decode_video"
          /\ UNCHANGED pending
       \/ \* mkstemp raises
          /\ pending' = "exception"
          /\ pc' = "pc_finally_video"
          /\ UNCHANGED <<temp_audio_m4s, tempDir>>
    /\ UNCHANGED <<batchVars_noPc, outDir, folderVars, temp_video_m4s, success_decoding,
                   final_output_filepath, invocations, strategy_b_runs, remove_failed,
                   repaired, decodeVars, functionVars, appVars>>

\* Variant: the result of a repair is ignored, the next step follows in any case.
AfterRepair_IgnoreResult(ok, next) == next

\* if decode(...) and decode(...): where the try block goes after a repair
\* returned ok; a False result leaves success_decoding False, the else branch
\* returns False (line 752) and the finally block runs.
AfterRepair(ok, next) == IF ok THEN next ELSE "pc_finally_video"

\* decode_bilibili_m4s(video, temp_video_m4s): False exactly on an I/O error
pc_decode_video ==
    /\ pc = "pc_decode_video"
    /\ \E io_ok \in BOOLEAN :
         /\ pc' = AfterRepair(io_ok, "pc_decode_audio")
         /\ IF io_ok
            THEN /\ repaired' = repaired \cup {temp_video_m4s}
                 /\ UNCHANGED pending
            ELSE /\ pending' = "return_false"
                 /\ UNCHANGED repaired
    /\ UNCHANGED <<batchVars_noPc, diskVars, folderVars, temp_video_m4s, temp_audio_m4s,
                   success_decoding, final_output_filepath, invocations, strategy_b_runs,
                   remove_failed, decodeVars, functionVars, appVars>>

\* decode_bilibili_m4s(audio, temp_audio_m4s), evaluated only after the video decoded
pc_decode_audio ==
    /\ pc = "pc_decode_audio"
    /\ \E io_ok \in BOOLEAN :
         /\ success_decoding' = (AfterRepair(io_ok, "pc_output_path") = "pc_output_path")
         /\ pc' = AfterRepair(io_ok, "pc_output_path")
         /\ IF io_ok
            THEN /\ repaired' = repaired \cup {temp_audio_m4s}
                 /\ UNCHANGED pending
            ELSE /\ pending' = "return_false"
                 /\ UNCHANGED repaired
    /\ UNCHANGED <<batchVars_noPc, diskVars, folderVars, temp_video_m4s, temp_audio_m4s,
                   final_output_filepath, invocations, strategy_b_runs, remove_failed,
                   decodeVars, functionVars, appVars>>

pc_output_path ==
    /\ pc = "pc_output_path"
    /\ final_output_filepath' = ComputeOutputPath(sanitized_title, outDir)
    /\ pc' = "pc_merge"
    /\ UNCHANGED <<batchVars_noPc, diskVars, folderVars, temp_video_m4s, temp_audio_m4s,
                   success_decoding, pending, invocations, strategy_b_runs, remove_failed,
                   repaired, decodeVars, functionVars, appVars>>

\* The tool on the two repaired temp files; its result is the pending return value.
pc_merge ==
    /\ pc = "pc_merge"
    /\ \E outcome \in ToolOutcomes :
         /\ invocations' = Append(invocations,
                Invocation("temp", <<temp_video_m4s, temp_audio_m4s>>,
                           final_output_filepath, outcome))
         /\ outDir' = ToolWrites(outDir, final_output_filepath, outcome)
         /\ pending' = IF run_ffmpeg_command(outcome) THEN "return_true" ELSE "return_false"
    /\ pc' = "pc_finally_video"
    /\ UNCHANGED <<batchVars_noPc, tempDir, folderVars, temp_video_m4s, temp_audio_m4s,
                   success_decoding, final_output_filepath, strategy_b_runs, remove_failed,
                   repaired, decodeVars, functionVars, appVars>>

\* finally: if temp_video_m4s and os.path.exists(temp_video_m4s): os.remove(temp_video_m4s)
\* An os.remove that raises leaves the finally block: the outer except returns False.
pc_finally_video ==
    /\ pc = "pc_finally_video"
    /\ IF temp_video_m4s # None /\ temp_video_m4s \in tempDir
       THEN \/ /\ tempDir' = tempDir \ {temp_video_m4s}
               /\ pc' = "pc_finally_audio"
               /\ UNCHANGED <<ret, remove_failed>>
            \/ /\ remove_failed' = remove_failed \cup {temp_video_m4s}
               /\ Return(FALSE)
               /\ UNCHANGED tempDir
       ELSE /\ pc' = "pc_finally_audio"
            /\ UNCHANGED <<ret, remove_failed, tempDir>>
    /\ UNCHANGED <<batchVars_noPc, outDir, structure_type, frags, folder_basename, video_info,
                   video_title, sanitized_title, tracks, outDirAtStart, temp_video_m4s,
                   temp_audio_m4s, success_decoding, final_output_filepath, pending,
                   invocations, strategy_b_runs, repaired, decodeVars, functionVars, appVars>>

\* finally: if temp_audio_m4s and os.path.exists(temp_audio_m4s): os.remove(temp_audio_m4s)
\* then the pending return value is returned, a pending exception is caught: False.
pc_finally_audio ==
    /\ pc = "pc_finally_audio"
    /\ IF temp_audio_m4s # None /\ temp_audio_m4s \in tempDir
       THEN \/ /\ tempDir' = tempDir \ {temp_audio_m4s}
               /\ Return(pending = "return_true")
               /\ UNCHANGED remove_failed
            \/ /\ remove_failed' = remove_failed \cup {temp_audio_m4s}
               /\ Return(FALSE)
               /\ UNCHANGED tempDir
       ELSE /\ Return(pending = "return_true")
            /\ UNCHANGED <<remove_failed, tempDir>>
    /\ UNCHANGED <<batchVars_noPc, outDir, structure_type, frags, folder_basename, video_info,
                   video_title, sanitized_title, tracks, outDirAtStart, temp_video_m4s,
                   temp_audio_m4s, success_decoding, final_output_filepath, pending,
                   invocations, strategy_b_runs, repaired, decodeVars, functionVars, appVars>>

\* ---------------------------------------------------------- specifications
Next ==
    \/ add_input_folder
    \/ start_processing_thread
    \/ process_folders_begin
    \/ process_folders_next
    \/ process_single_folder_detect
    \/ process_single_folder_load_json
    \/ mobile_select
    \/ mobile_direct_merge
    \/ pc_select
    \/ pc_mkstemp_video
    \/ pc_mkstemp_audio
    \/ pc_decode_video
    \/ pc_decode_audio
    \/ pc_output_path
    \/ pc_merge
    \/ pc_finally_video
    \/ pc_finally_audio

Spec == Init /\ [][Next]_vars

\* decode_bilibili_m4s on one input file
InitDecode ==
    /\ \E len \in DecodeLengths, brand \in BrandChoices : fin = InputFile(len, brand)
    /\ fpos = 0
    /\ fout = <<>>
    /\ first_chunk_processed = FALSE
    /\ dpc = "first"
    /\ dret = FALSE
    /\ io_error = FALSE
    /\ FunctionIdle
    /\ FFMPEG_EXECUTABLE = FFMPEG_PATH
    /\ start_refused = FALSE
    /\ start_button = InitialStartButton(FFMPEG_EXECUTABLE)
    /\ workers = <<>>
    /\ input_folders = <<>>
    /\ output_folder_set = FALSE
    /\ outDir = {}
    /\ tempDir = {}
    /\ pc = "off"
    /\ i = 0
    /\ success_count = 0
    /\ failed_count = 0
    /\ processed = <<>>
    /\ results = <<>>
    /\ FolderIdle
    /\ StrategyIdle

NextDecode ==
    \/ decode_first_chunk
    \/ decode_copy_block
    \/ decode_io_error

SpecDecode == InitDecode /\ [][NextDecode]_vars

\* The title pipeline of process_single_folder on one parsed descriptor
title_extract ==
    /\ pc = "title_extract"
    /\ video_title' = ExtractTitle(structure_type, video_info)
    /\ pc' = "title_sanitize"
    /\ UNCHANGED <<batchVars_noPc, diskVars, structure_type, frags, folder_basename, video_info,
                   sanitized_title, tracks, ret, outDirAtStart, strategyVars, decodeVars, functionVars, appVars>>

title_sanitize ==
    /\ pc = "title_sanitize"
    /\ sanitized_title' = FallbackTitle(video_title, folder_basename)
    /\ pc' = "title_done"
    /\ UNCHANGED <<batchVars_noPc, diskVars, structure_type, frags, folder_basename, video_info,
                   video_title, tracks, ret, outDirAtStart, strategyVars, decodeVars, functionVars, appVars>>

InitTitle ==
    /\ pc = "title_extract"
    /\ structure_type \in {"pc", "mobile"}
    /\ video_info \in InfosFor(structure_type)
    /\ folder_basename \in BaseNames
    /\ video_title = UNTITLED_VIDEO
    /\ sanitized_title = <<>>
    /\ frags = <<>> /\ tracks = <<>> /\ ret = FALSE /\ outDirAtStart = {}
    /\ input_folders = <<>>
    /\ output_folder_set = FALSE
    /\ outDir = {}
    /\ tempDir = {}
    /\ i = 0
    /\ success_count = 0
    /\ failed_count = 0
    /\ processed = <<>>
    /\ results = <<>>
    /\ StrategyIdle
    /\ DecodeIdle
    /\ FunctionIdle
    /\ FFMPEG_EXECUTABLE = FFMPEG_PATH
    /\ start_refused = FALSE
    /\ start_button = InitialStartButton(FFMPEG_EXECUTABLE)
    /\ workers = <<>>

NextTitle ==
    \/ title_extract
    \/ title_sanitize

SpecTitle == InitTitle /\ [][NextTitle]_vars

\* --------------------------------------------------------- start requests
\* The start button and the worker threads.  A worker is "none" (not created),
\* "launched" (its thread runs process_folders and has not passed the guards),
\* "running" (in the loop, i folders done, path the output path it has
\* computed for the current folder and not yet handed to the tool) or "finished".
NoWorker == [at |-> "none", i |-> 0, path |-> NoPath]

\* A click on the start button: Tk runs the command of an enabled button only.
\* start_processing_thread creates a thread and starts it, and returns.
start_button_click ==
    /\ start_button = "normal"
    /\ \E w \in DOMAIN workers :
         /\ workers[w].at = "none"
         /\ \A v \in 1..(w - 1) : workers[v].at # "none"
         /\ IF ToolResolved(FFMPEG_EXECUTABLE)
            THEN /\ workers' = [workers EXCEPT ![w].at = "launched"]
                 /\ UNCHANGED start_refused
            ELSE /\ start_refused' = TRUE
                 /\ UNCHANGED workers
    /\ UNCHANGED <<batchVars, diskVars, folderVars, strategyVars, decodeVars, functionVars,
                   FFMPEG_EXECUTABLE, start_button>>

\* A worker runs the guards of process_folders: a failing guard re-enables the
\* button and returns, otherwise the controls are disabled and the loop begins.
worker_guards ==
    /\ \E w \in DOMAIN workers :
         /\ workers[w].at = "launched"
         /\ start_button' = ButtonAfterGuards(input_folders # <<>> /\ output_folder_set)
         /\ workers' = [workers EXCEPT ![w].at =
                IF input_folders # <<>> /\ output_folder_set THEN "running" ELSE "finished"]
    /\ UNCHANGED <<batchVars, diskVars, folderVars, strategyVars, decodeVars, functionVars,
                   FFMPEG_EXECUTABLE, start_refused>>

\* A worker in process_single_folder on its next folder computes the output
\* path: the first name of the title that os.path.exists does not find.
worker_output_path ==
    /\ \E w \in DOMAIN workers :
         /\ workers[w].at = "running"
         /\ workers[w].i < Len(input_folders)
         /\ workers[w].path = NoPath
         /\ workers' = [workers EXCEPT ![w].path = ComputeOutputPath(CONVERTED_VIDEO, outDir)]
    /\ UNCHANGED <<batchVars, diskVars, folderVars, strategyVars, decodeVars, functionVars,
                   FFMPEG_EXECUTABLE, start_refused, start_button>>

\* The worker runs the tool with -y on the path it computed; the folder is done.
worker_merge ==
    /\ \E w \in DOMAIN workers :
         /\ workers[w].at = "running"
         /\ workers[w].path # NoPath
         /\ outDir' = ToolWrites(outDir, workers[w].path, "ok")
         /\ workers' = [workers EXCEPT ![w].path = NoPath, ![w].i = workers[w].i + 1]
    /\ UNCHANGED <<batchVars_noPc, pc, tempDir, folderVars, strategyVars, decodeVars, functionVars,
                   FFMPEG_EXECUTABLE, start_refused, start_button>>

\* A worker leaves the loop, reports and re-enables the controls.
worker_finish ==
    /\ \E w \in DOMAIN workers :
         /\ workers[w].at = "running"
         /\ workers[w].i = Len(input_folders)
         /\ workers[w].path = NoPath
         /\ workers' = [workers EXCEPT ![w].at = "finished"]
         /\ start_button' = "normal"
    /\ UNCHANGED <<batchVars, diskVars, folderVars, strategyVars, decodeVars, functionVars,
                   FFMPEG_EXECUTABLE, start_refused>>

InitStart ==
    /\ input_folders \in {[k \in 1..n |-> k] : n \in 0..MaxFolders}
    /\ output_folder_set \in BOOLEAN
    /\ FFMPEG_EXECUTABLE \in {None, FFMPEG_PATH}
    /\ start_refused = FALSE
    /\ start_button = InitialStartButton(FFMPEG_EXECUTABLE)
    /\ workers = [w \in 1..MaxWorkers |-> NoWorker]
    /\ pc = "off"
    /\ outDir = {}
    /\ tempDir = {}
    /\ i = 0
    /\ success_count = 0
    /\ failed_count = 0
    /\ processed = <<>>
    /\ results = <<>>
    /\ FolderIdle
    /\ StrategyIdle
    /\ DecodeIdle
    /\ FunctionIdle

NextStart ==
    \/ start_button_click
    \/ worker_guards
    \/ worker_output_path
    \/ worker_merge
    \/ worker_finish

SpecStart == InitStart /\ [][NextStart]_vars

\* The state of every variable the single-function specifications do not use
BatchOff ==
    /\ input_folders = <<>>
    /\ output_folder_set = FALSE
    /\ outDir = {}
    /\ tempDir = {}
    /\ i = 0
    /\ success_count = 0
    /\ failed_count = 0
    /\ processed = <<>>
    /\ results = <<>>
    /\ FolderIdle
    /\ StrategyIdle
    /\ DecodeIdle
    /\ FFMPEG_EXECUTABLE = FFMPEG_PATH
    /\ start_refused = FALSE
    /\ start_button = InitialStartButton(FFMPEG_EXECUTABLE)
    /\ workers = <<>>

\* detect_folder_structure on one folder
detect_call ==
    /\ pc = "detect_call"
    /\ out' = detect_folder_structure(arg)
    /\ pc' = "detect_done"
    /\ UNCHANGED <<arg, batchVars_noPc, diskVars, folderVars, strategyVars, decodeVars, appVars>>

InitDetect ==
    /\ pc = "detect_call"
    /\ arg \in FolderTrees
    /\ out = None
    /\ BatchOff

NextDetect == detect_call

SpecDetect == InitDetect /\ [][NextDetect]_vars

\* The track selection on one listing of a media folder
select_call ==
    /\ pc = "select_call"
    /\ out' = SelectTracks(arg)
    /\ pc' = "select_done"
    /\ UNCHANGED <<arg, batchVars_noPc, diskVars, folderVars, strategyVars, decodeVars, appVars>>

InitSelect ==
    /\ pc = "select_call"
    /\ arg \in DirListings
    /\ out = None
    /\ BatchOff

NextSelect == select_call

SpecSelect == InitSelect /\ [][NextSelect]_vars

\* sanitize_filename on one title
sanitize_call ==
    /\ pc = "sanitize_call"
    /\ out' = sanitize_filename(arg)
    /\ pc' = "sanitize_done"
    /\ UNCHANGED <<arg, batchVars_noPc, diskVars, folderVars, strategyVars, decodeVars, appVars>>

InitSanitize ==
    /\ pc = "sanitize_call"
    /\ arg \in SanitizeInputs
    /\ out = None
    /\ BatchOff

NextSanitize == sanitize_call

SpecSanitize == InitSanitize /\ [][NextSanitize]_vars

TypeOK ==
    /\ pc \in {"sanitize_call", "sanitize_done", "detect_call", "detect_done", "select_call", "select_done", "off", "idle", "start", "aborted", "done", "psf_detect", "psf_load_json", "title_extract", "title_sanitize", "title_done",
               "psf_return", "mobile_select", "mobile_direct_merge", "pc_select",
               "pc_mkstemp_video", "pc_mkstemp_audio", "pc_decode_video", "pc_decode_audio",
               "pc_output_path", "pc_merge", "pc_finally_video", "pc_finally_audio"}
    /\ dpc \in {"off", "first", "copy", "done"}
    /\ start_button \in {"normal", "disabled"}
    /\ \A w \in DOMAIN workers : workers[w].at \in {"none", "launched", "running", "finished"}
    /\ ret \in BOOLEAN
    /\ Cardinality(tempDir) <= 2 * MaxFolders


\* ================================================================= claims
Last(q) == q[Len(q)]

RECURSIVE CountOf(_, _)
CountOf(q, v) == IF q = <<>> THEN 0 ELSE (IF Head(q) = v THEN 1 ELSE 0) + CountOf(Tail(q), v)

InFolder == pc \notin {"off", "idle", "start", "aborted", "done", "psf_detect",
                       "title_extract", "title_sanitize", "title_done"}

\* The temp files the current call of process_pc_m4s_files created
CreatedTemps == {temp_video_m4s, temp_audio_m4s} \ {None}

\* C1: for a MobileOrigin folder the first tool invocation takes the two raw
\* selected fragments; process_pc_m4s_files (Strategy B) is entered only after
\* that direct invocation failed, at most once, and when the folder returns it
\* has run exactly once if the direct invocation failed and not at all if it
\* succeeded; there are at most two invocations, exactly one after a
\* successful direct merge.
C1_MobileFallbackOnce ==
    (InFolder /\ structure_type = "mobile") =>
        /\ Len(invocations) <= 2
        /\ strategy_b_runs <= 1
        /\ invocations # <<>> =>
              /\ invocations[1].inputs = "raw"
              /\ invocations[1].files = tracks
              /\ tracks[1] # tracks[2]
              /\ frags # <<>> => (frags[tracks[1]] # Unreadable /\ frags[tracks[2]] # Unreadable)
        /\ strategy_b_runs = 1 => (invocations # <<>> /\ ~invocations[1].ok)
        /\ Len(invocations) = 2 => (invocations[2].inputs = "temp" /\ strategy_b_runs = 1)
        /\ pc = "psf_return" =>
              /\ (invocations # <<>> /\ ~invocations[1].ok) => strategy_b_runs = 1
              /\ (invocations # <<>> /\ invocations[1].ok) => Len(invocations) = 1

C1_Witness ==
    /\ pc = "psf_return"
    /\ structure_type = "mobile"
    /\ Len(invocations) = 2
    /\ ~invocations[1].ok
    /\ strategy_b_runs = 1

\* C2: when process_pc_m4s_files has returned, no temp file it created is left
\* on disk, except one whose own os.remove raised; and at no moment do more
\* than two temp files of the call exist.
C2_TempFilesDeletedOnReturn ==
    /\ Cardinality(CreatedTemps \cap tempDir) <= 2
    /\ pc = "psf_return" => \A t \in CreatedTemps : t \notin tempDir \/ t \in remove_failed

\* C3 as stated: after a successful repair of an input whose first read chunk
\* has at least 20 bytes, the output is 9 bytes shorter than the input when the
\* bytes at offsets 16..19 after the strip are "iso5", and 13 bytes shorter
\* otherwise.
FirstChunkLen == Min(Len(fin), FIRST_CHUNK)

BrandPresent ==
    /\ Len(fin) >= STRIP_LEN + BRAND_END
    /\ SubSeq(fin, STRIP_LEN + BRAND_OFFSET + 1, STRIP_LEN + BRAND_END) = ISO5

C3_LengthFrom20 ==
    (dpc = "done" /\ dret /\ FirstChunkLen >= 20) =>
        Len(fout) = Len(fin) - (IF BrandPresent THEN 9 ELSE 13)

\* C3 (amended): after a successful repair of an input whose first read chunk
\* has at least 29 bytes (20 bytes remain after the 9-byte strip), the output
\* is 9 bytes shorter than the input when the bytes at offsets 16..19 after
\* the strip are "iso5", and 13 bytes shorter otherwise.
C3_LengthFrom29 ==
    (dpc = "done" /\ dret /\ FirstChunkLen >= 29) =>
        Len(fout) = Len(fin) - (IF BrandPresent THEN 9 ELSE 13)

C3_Witness ==
    /\ dpc = "done" /\ dret
    /\ FirstChunkLen >= 29
    /\ ~BrandPresent
    /\ Len(fout) = Len(fin) - 13

\* C4: the extracted title is the value of the first key path, in the layout's
\* order, that holds a non-empty string; empty values do not stop the probe.
KeyPaths(structure) ==
    IF structure = "pc" THEN <<"title", "videoData_title", "page_data_part", "videoName">>
    ELSE <<"title", "page_data_part">>

NonEmptyKeys(structure, info) ==
    {k \in 1..Len(KeyPaths(structure)) : Truthy(info[KeyPaths(structure)[k]])}

FirstNonEmpty(structure, info) ==
    LET k == CHOOSE m \in NonEmptyKeys(structure, info) :
                 \A n \in NonEmptyKeys(structure, info) : m <= n
    IN  info[KeyPaths(structure)[k]]

C4_FirstNonEmptyTitle ==
    (pc \in {"title_sanitize", "title_done"}
        /\ NonEmptyKeys(structure_type, video_info) # {}) =>
        video_title = FirstNonEmpty(structure_type, video_info)

\* C5 as stated: when the descriptor parses but no key path yields a non-empty
\* title, the output title is the sanitized base name of the folder, and
\* "converted_video" only if that sanitizes to empty; the title is never empty.
BaseNameTitle ==
    IF sanitize_filename(folder_basename) # <<>>
    THEN sanitize_filename(folder_basename)
    ELSE CONVERTED_VIDEO

C5_BaseNameWhenNoTitle ==
    pc = "title_done" =>
        /\ sanitized_title # <<>>
        /\ NonEmptyKeys(structure_type, video_info) = {} => sanitized_title = BaseNameTitle

\* C5 (amended): when the descriptor parses but no key path yields a non-empty
\* title, the output title is the sanitized base name of the folder (and
\* "converted_video" only if that sanitizes to empty) when a key path that is
\* taken without an emptiness test (videoData.title, page_data.part) is
\* present; when none is present it is the literal "untitled_video".  The
\* title used for the output file is never empty.
TakenUntested(structure, info) ==
    \/ info.page_data_part # Absent
    \/ structure = "pc" /\ info.videoData_title # Absent

C5_BaseNameOrUntitled ==
    pc = "title_done" =>
        /\ sanitized_title # <<>>
        /\ NonEmptyKeys(structure_type, video_info) = {} =>
              sanitized_title = IF TakenUntested(structure_type, video_info)
                                THEN BaseNameTitle
                                ELSE UNTITLED_VIDEO

C5_Witness ==
    /\ pc = "title_done"
    /\ NonEmptyKeys(structure_type, video_info) = {}
    /\ TakenUntested(structure_type, video_info)
    /\ sanitize_filename(folder_basename) # <<>>
    /\ sanitized_title = sanitize_filename(folder_basename)

\* C6: a run of process_single_folder that returns success has added exactly
\* one file to the output directory.
C6_OneNewOutputFile ==
    (pc = "psf_return" /\ ret) => Cardinality(outDir \ outDirAtStart) = 1

\* C7: the output path is the first of Title.mp4, Title_1.mp4, Title_2.mp4, ...
\* that is not in the output directory when the path is computed, and no
\* invocation targets a file that existed when the tool was started.
C7_FirstFreeOutputName ==
    /\ pc \in {"mobile_direct_merge", "pc_merge"} =>
          /\ final_output_filepath \notin outDir
          /\ \E c \in 0..Cardinality(outDir) :
                /\ final_output_filepath = OutputName(sanitized_title, c)
                /\ \A b \in 0..(c - 1) : OutputName(sanitized_title, b) \in outDir
    /\ \A k \in DOMAIN invocations : ~invocations[k].existed

C7_Witness ==
    /\ pc = "psf_return" /\ ret
    /\ sanitized_title = <<"a", "_">>
    /\ {OutputName(<<"a", "_">>, 0), OutputName(<<"a", "_">>, 1)} \subseteq outDirAtStart
    /\ Last(invocations).target = OutputName(<<"a", "_">>, 2)
    /\ Len(results) >= 1

\* C8: for a DesktopOrigin folder there is at most one tool invocation, it
\* takes the two temp files, and both were written by a successful repair.
C8_DesktopOnlyRepaired ==
    (InFolder /\ structure_type = "pc") =>
        /\ Len(invocations) <= 1
        /\ \A k \in DOMAIN invocations :
              /\ invocations[k].inputs = "temp"
              /\ invocations[k].files = <<temp_video_m4s, temp_audio_m4s>>
              /\ {temp_video_m4s, temp_audio_m4s} \subseteq repaired
              /\ None \notin repaired
              /\ success_decoding

C8_Witness ==
    /\ pc = "psf_return"
    /\ structure_type = "pc"
    /\ Len(invocations) = 1
    /\ invocations[1].ok

\* C9: process_single_folder returns success if and only if the last tool
\* invocation for the folder exited successfully.
C9_SuccessIffLastInvocationOk ==
    pc = "psf_return" => (ret <=> (invocations # <<>> /\ Last(invocations).ok))

\* C10: a batch hands every submitted folder to process_single_folder exactly
\* once, one at a time and in list order, whatever the earlier folders
\* returned, and the reported success and failure counts are the numbers of
\* folders that returned success and failure.
C10_BatchProcessesAll ==
    /\ Len(processed) <= Len(input_folders)
    /\ processed = SubSeq(input_folders, 1, Len(processed))
    /\ Len(results) <= Len(processed) /\ Len(processed) <= Len(results) + 1
    /\ InFolder => (Len(processed) = Len(results) + 1 /\ i + 1 = Len(processed))
    /\ pc = "done" =>
          /\ processed = input_folders
          /\ Len(results) = Len(input_folders)
          /\ success_count = CountOf(results, TRUE)
          /\ failed_count = CountOf(results, FALSE)
          /\ success_count + failed_count = Len(input_folders)

C10_Witness ==
    /\ pc = "done"
    /\ Len(results) >= 2
    /\ results[1] = FALSE
    /\ results[2] = TRUE

\* C11: on an input shorter than 9 bytes decode_bilibili_m4s writes an output
\* identical to the input: whenever it returns True for such an input, the
\* bytes written are the bytes of the input.
C11_ShortInputCopied ==
    (dpc = "done" /\ dret /\ Len(fin) < STRIP_LEN) => fout = fin

C11_Witness ==
    dpc = "done" /\ dret /\ Len(fin) = 5 /\ fout = fin

\* C12: decode_bilibili_m4s never raises and returns True for every input
\* whose reads and writes succeed, whatever the length of the header (0, 5,
\* 9, 10, 16, 19, 20 bytes and every other length); it returns False only
\* when open, read or write failed.
C12_FalseOnlyOnIoError ==
    dpc = "done" => (dret <=> ~io_error)

C12_Witness ==
    dpc = "done" /\ dret /\ ~io_error /\ Len(fin) = 10

\* The first c_ subfolder of the folder detect_folder_structure was applied to
FirstCFolder == arg.c_folders[1]

\* A subdirectory that holds at least two ".m4s" names, listable or not
HoldsFragments(item) == item.dir /\ item.m4s >= MIN_FRAGMENTS

\* C13 as stated: on a folder without videoInfo.json the result is
\* MobileOrigin(D, E) exactly when the first c_ subdirectory contains
\* entry.json and D is the first of its subdirectories that holds at least
\* two ".m4s" files and no listing on the way raised; in every other case,
\* any enumeration error included, the result is Unknown with both paths null.
C13_UnknownOnAnyEnumerationError ==
    (pc = "detect_done" /\ arg.videoInfo = "absent") =>
        IF /\ arg.listable
           /\ arg.c_folders # <<>>
           /\ FirstCFolder.listable
           /\ FirstCFolder.entry # "absent"
           /\ \E k \in DOMAIN FirstCFolder.items :
                 /\ HoldsFragments(FirstCFolder.items[k])
                 /\ \A j \in 1..k :
                       FirstCFolder.items[j].dir => FirstCFolder.items[j].listable
        THEN /\ out.kind = "mobile"
             /\ out.c_folder = 1
             /\ out.json = "entry.json"
             /\ HoldsFragments(FirstCFolder.items[out.media_dir])
             /\ \A j \in 1..(out.media_dir - 1) : ~HoldsFragments(FirstCFolder.items[j])
        ELSE out = UnknownLayout

\* C13, amended: on a folder without videoInfo.json the result is
\* MobileOrigin(D, E) exactly when the folder and its first c_ subdirectory
\* can be listed, that subdirectory contains E = entry.json, and D is the
\* first of its subdirectories that can be listed and holds at least two
\* ".m4s" names (a subdirectory whose listing raises is skipped); in every
\* other case the result is Unknown with both paths null.
C13_FirstListableMediaDir ==
    (pc = "detect_done" /\ arg.videoInfo = "absent") =>
        IF /\ arg.listable
           /\ arg.c_folders # <<>>
           /\ FirstCFolder.listable
           /\ FirstCFolder.entry # "absent"
           /\ \E k \in DOMAIN FirstCFolder.items :
                 HoldsFragments(FirstCFolder.items[k]) /\ FirstCFolder.items[k].listable
        THEN /\ out.kind = "mobile"
             /\ out.c_folder = 1
             /\ out.json = "entry.json"
             /\ out.media_dir \in DOMAIN FirstCFolder.items
             /\ HoldsFragments(FirstCFolder.items[out.media_dir])
             /\ FirstCFolder.items[out.media_dir].listable
             /\ \A j \in 1..(out.media_dir - 1) :
                   ~(HoldsFragments(FirstCFolder.items[j]) /\ FirstCFolder.items[j].listable)
        ELSE out = UnknownLayout

\* A subdirectory whose listing raised was skipped and the next one returned.
C13_Witness ==
    /\ pc = "detect_done" /\ arg.videoInfo = "absent"
    /\ out.kind = "mobile" /\ out.media_dir = 2
    /\ FirstCFolder.items[1].dir /\ ~FirstCFolder.items[1].listable

\* C14 as stated: on every folder that has a child named videoInfo.json the
\* result is DesktopOrigin with the folder itself as fragment directory and
\* that file as metadata path.
C14_DesktopWheneverVideoInfo ==
    (pc = "detect_done" /\ arg.videoInfo # "absent") =>
        out = [kind |-> "pc", c_folder |-> 0, media_dir |-> 0, json |-> "videoInfo.json"]

\* C14, amended: on every folder that can be listed and has a child named
\* videoInfo.json the result is DesktopOrigin with the folder itself as
\* fragment directory and that file as metadata path, whatever c_
\* subdirectories the folder also has; a folder whose listing raises gives
\* Unknown.
C14_DesktopPrecedence ==
    (pc = "detect_done" /\ arg.videoInfo # "absent") =>
        IF arg.listable
        THEN out = [kind |-> "pc", c_folder |-> 0, media_dir |-> 0, json |-> "videoInfo.json"]
        ELSE out = UnknownLayout

\* videoInfo.json next to a complete mobile layout
C14_Witness ==
    /\ pc = "detect_done" /\ out.kind = "pc"
    /\ arg.c_folders # <<>>
    /\ FirstCFolder.listable /\ FirstCFolder.entry = "mapping"
    /\ FirstCFolder.items = <<MediaDir>>

\* The descriptor file the result names
ReturnedDescriptor ==
    IF out.kind = "pc" THEN arg.videoInfo ELSE arg.c_folders[out.c_folder].entry

\* The fragment directory the result names is a directory of the folder
FragmentDirExists ==
    IF out.kind = "pc" THEN TRUE
    ELSE /\ out.c_folder \in DOMAIN arg.c_folders
         /\ out.media_dir \in DOMAIN arg.c_folders[out.c_folder].items
         /\ arg.c_folders[out.c_folder].items[out.media_dir].dir

\* C15 as stated: for every result other than Unknown the fragment directory
\* and the metadata path exist and the metadata descriptor is readable
\* structured data (a mapping).
C15_DescriptorIsMapping ==
    (pc = "detect_done" /\ out.kind # "unknown") =>
        FragmentDirExists /\ ReturnedDescriptor = "mapping"

\* C15, amended: for every result other than Unknown the fragment directory
\* and the metadata path exist; the detection does not read the descriptor.
C15_PathsExist ==
    (pc = "detect_done" /\ out.kind # "unknown") =>
        FragmentDirExists /\ ReturnedDescriptor # "absent"

\* A mobile layout is returned whose entry.json is not parsable
C15_Witness ==
    /\ pc = "detect_done" /\ out.kind = "mobile"
    /\ ReturnedDescriptor = "unparsable" /\ FragmentDirExists

\* The entries the selection has to consider: the name ends in ".m4s" in
\* either case and the size could be read
Considered ==
    {k \in DOMAIN arg :
        /\ arg[k].name \in {<<"v", ".", "m", "4", "s">>, <<"A", ".", "M", "4", "S">>}
        /\ arg[k].size # Unreadable}

\* C16: the selection considers exactly the ".m4s" entries (case-insensitive)
\* whose size can be read; it fails if and only if fewer than two remain;
\* otherwise the video is a largest of them and the audio a largest of the
\* others, so video.size >= audio.size >= the size of every further entry,
\* which is ignored.
C16_TwoLargestSelected ==
    pc = "select_done" =>
        /\ out.ok <=> Cardinality(Considered) >= 2
        /\ out.ok =>
              /\ out.video \in Considered
              /\ out.audio \in Considered \ {out.video}
              /\ \A k \in Considered : arg[out.video].size >= arg[k].size
              /\ \A k \in Considered \ {out.video} : arg[out.audio].size >= arg[k].size

\* Three fragments of sizes 1, 3, 2: the second is the video, the third the audio
C16_Witness ==
    /\ pc = "select_done" /\ out.ok
    /\ Considered = {1, 2, 3}
    /\ arg[1].size = 1 /\ arg[2].size = 3 /\ arg[3].size = 2
    /\ out.video = 2 /\ out.audio = 3

\* The positions of the title whose whitespace character does not reach the
\* result: all but the last of every run, and the runs at the two ends
DroppedWhitespace ==
    {k \in DOMAIN arg :
        /\ arg[k] \in SpaceChars
        /\ \/ k < Len(arg) /\ arg[k + 1] \in SpaceChars
           \/ \A j \in 1..(k - 1) : arg[j] \in SpaceChars
           \/ \A j \in (k + 1)..Len(arg) : arg[j] \in SpaceChars}

\* C17 as stated: every title longer than 150 characters yields a result of
\* exactly 150 characters.
C17_LongTitleGives150 ==
    (pc = "sanitize_done" /\ Len(arg) > MAX_NAME_LEN) => Len(out) = MAX_NAME_LEN

\* C17, amended: the result holds no illegal character and no whitespace
\* other than single spaces between two other characters of the untruncated
\* name; a title without whitespace comes out with every illegal character
\* replaced by an underscore, cut after 150 characters ('My:Video<1>' gives
\* 'My_Video_1_'); the length of the result is the smaller of 150 and the
\* length left after whitespace runs were collapsed and the ends trimmed, so
\* a title longer than 150 characters yields exactly 150 only when more than
\* 150 are left.
C17_SanitizedName ==
    pc = "sanitize_done" =>
        /\ Len(out) = Min(MAX_NAME_LEN, Len(arg) - Cardinality(DroppedWhitespace))
        /\ \A k \in DOMAIN out :
              /\ out[k] \notin IllegalChars
              /\ out[k] \notin SpaceChars \ {" "}
              /\ out[k] = " " => (k > 1 /\ out[k - 1] # " ")
        /\ (\A k \in DOMAIN arg : arg[k] \notin SpaceChars) =>
              \A k \in DOMAIN out :
                  out[k] = IF arg[k] \in IllegalChars THEN "_" ELSE arg[k]
        /\ arg = MY_VIDEO =>
              out = <<"M", "y", "_", "V", "i", "d", "e", "o", "_", "1", "_">>

\* A title of more than 150 characters with a whitespace run, cut to 150
C17_Witness ==
    /\ pc = "sanitize_done"
    /\ Len(arg) = MAX_NAME_LEN + 2
    /\ Cardinality(DroppedWhitespace) = 1
    /\ Len(out) = MAX_NAME_LEN

\* C18: when the external tool was not found at startup, no folder is ever
\* touched whatever the user does: no worker is started, no folder is handed
\* to the detection for processing, no temp file is created, the tool is not
\* invoked and the output directory is left as it was.
C18_NothingWithoutTool ==
    FFMPEG_EXECUTABLE = None =>
        /\ pc = "idle"
        /\ processed = <<>> /\ results = <<>>
        /\ structure_type = "none"
        /\ tempDir = {} /\ temp_video_m4s = None /\ temp_audio_m4s = None
        /\ invocations = <<>>
        /\ outDir \in InitialOutDirs

\* The start command was given with folders and an output folder chosen, and refused
C18_Witness ==
    /\ FFMPEG_EXECUTABLE = None /\ start_refused
    /\ Len(input_folders) = MaxFolders /\ output_folder_set
    /\ pc = "idle" /\ processed = <<>>

\* How many leading bytes of the input the output lacks
Stripped == IF Len(fin) >= STRIP_LEN THEN STRIP_LEN ELSE 0

\* The length of the first chunk once the leading bytes are removed
RemainingChunk == Min(Len(fin), FIRST_CHUNK) - Stripped

\* How many bytes are removed at post-strip offsets 16..19
BrandRemoved ==
    IF /\ Stripped = STRIP_LEN
       /\ RemainingChunk >= BRAND_END
       /\ \E k \in 1..4 : fin[STRIP_LEN + BRAND_OFFSET + k] # ISO5[k]
    THEN BRAND_END - BRAND_OFFSET
    ELSE 0

\* The position in the input of the byte at position k of the output
SourceOf(k) == IF k <= BRAND_OFFSET THEN k + Stripped ELSE k + Stripped + BrandRemoved

\* C19: decode_bilibili_m4s changes nothing but what steps 1-3 name.  When it
\* returns True, the output is the input without its first 9 bytes (when it
\* has 9) and without the 4 bytes at post-strip offsets 16..19 (when the
\* stripped first chunk has 20 bytes and they are not "iso5"), the byte at
\* post-strip offset 3 is 0x20 (when the stripped chunk has more than 3
\* bytes), and every other byte, of the first chunk and of all that follows
\* it, is the byte of the input, in the original order.
C19_OnlyHeaderChanged ==
    (dpc = "done" /\ dret) =>
        /\ Len(fout) = Len(fin) - Stripped - BrandRemoved
        /\ \A k \in DOMAIN fout :
              fout[k] = IF /\ k = PATCH_OFFSET + 1
                           /\ Stripped = STRIP_LEN
                           /\ RemainingChunk > PATCH_OFFSET
                        THEN PATCH_BYTE
                        ELSE fin[SourceOf(k)]

\* An input of more than one copy block past the first chunk, the brand removed
C19_Witness ==
    /\ dpc = "done" /\ dret
    /\ Len(fin) > FIRST_CHUNK + COPY_BLOCK
    /\ BrandRemoved = BRAND_END - BRAND_OFFSET
    /\ fout[PATCH_OFFSET + 1] = PATCH_BYTE
    /\ fout[Len(fout)] = fin[Len(fin)]

\* A repair of the current call of process_pc_m4s_files returned False: both
\* temp files were created and the try block was left without success_decoding
RepairFailed ==
    /\ pc \in {"pc_finally_video", "pc_finally_audio", "psf_return"}
    /\ temp_video_m4s # None /\ temp_audio_m4s # None
    /\ ~success_decoding
    /\ pending = "return_false"

\* C20: every invocation of the external tool for a folder comes after the
\* detection returned a known layout, the descriptor was parsed (the title is
\* set) and two fragments were selected; an invocation on temp files comes
\* only after both repairs returned True, on the two repaired temp files; and
\* after a failed repair there is no invocation on temp files and the folder
\* returns False.
C20_ToolAfterPrerequisites ==
    /\ invocations # <<>> =>
          /\ structure_type \in {"pc", "mobile"}
          /\ sanitized_title # <<>>
          /\ Len(tracks) = 2 /\ tracks[1] # tracks[2]
    /\ \A n \in DOMAIN invocations :
          invocations[n].inputs = "temp" =>
              /\ success_decoding
              /\ invocations[n].files = <<temp_video_m4s, temp_audio_m4s>>
              /\ {temp_video_m4s, temp_audio_m4s} \subseteq repaired
    /\ RepairFailed =>
          /\ \A n \in DOMAIN invocations : invocations[n].inputs # "temp"
          /\ pc = "psf_return" => ~ret

\* The fallback of a mobile folder invoked the tool on the two repaired temp files
C20_Witness ==
    /\ pc = "psf_return" /\ structure_type = "mobile"
    /\ Len(invocations) = 2
    /\ invocations[2].inputs = "temp"
    /\ {temp_video_m4s, temp_audio_m4s} \subseteq repaired

\* The workers that passed the guards of process_folders and have not finished
ActiveWorkers == {w \in DOMAIN workers : workers[w].at = "running"}

\* C21: at most one batch run is active at any time: after a start request
\* launched a worker, no other worker is launched before it has finished, so
\* no two workers are in the loop of process_folders at the same time and no
\* two hold the same output path for their tool invocation.
C21_OneActiveWorker ==
    /\ Cardinality(ActiveWorkers) <= 1
    /\ \A v, w \in DOMAIN workers :
          (v # w /\ workers[v].path # NoPath) => workers[v].path # workers[w].path

====
